---- MODULE Spec2Model ----
(***************************************************************************)
(* Content generation, moderation and scheduling pipeline of the Gunvald   *)
(* backend.  The repository holds two Express servers over one PostgreSQL  *)
(* schema: src/src/server.js (organization looked up through the users     *)
(* table, timer sweep) and src/unnamed/part_001 (the user id stands for    *)
(* the organization id, usage upsert, no timer).  The variable `server`    *)
(* says which of the two is running.  Every SQL statement is one atomic    *)
(* step; a handler with several awaits is several steps.  Spec serves the  *)
(* single-statement requests one at a time; SpecRace lets the publish      *)
(* requests and the timer sweeps wait for their statement, so that they    *)
(* overlap.                                                                *)
(***************************************************************************)
EXTENDS Integers, Sequences, FiniteSets, TLC

\* ----------------------------------------------------------------- bounds
MaxPosts == 2        \* rows the posts table may hold
MaxTime == 1         \* the clock runs over 0..MaxTime
MaxInflight == 1     \* publish requests and timer sweeps awaiting their statement
MaxGenerating == 1   \* POST /api/generate calls in progress at once
MaxSweeps == 2       \* timer sweeps awaiting their statement in SpecTimer

\* ------------------------------------------------------- program constants
NULL == -1           \* SQL NULL of a nullable column
DefaultCount == 5    \* default post count
MaxCount == 10       \* ceiling of the post count

Servers == {"server.js", "part_001"}
Users == {1, 2, 3}
\* users.organization_id: users 1 and 2 belong to organizations 1 and 2,
\* user 3 (e.g. a Clerk-only identity) has no users row / no organization.
userOrg == <<1, 2, NULL>>
Times == 0..MaxTime
Statuses == {"draft", "scheduled", "published"}

VARIABLES
    server,        \* which server program is running
    posts,         \* the posts table: posts[id] is the row with that SERIAL id
    now,           \* the clock (Date.now() of the process, NOW() of the store)
    pubPending,    \* users whose POST /api/publish-scheduled awaits its UPDATE
    sweepPending,  \* timer sweeps whose UPDATE has not run yet
    gen,           \* per user: the POST /api/generate call in progress
    usage,         \* organization_usage row of the current month, per organization
    last           \* the most recent completed step and, for a handler, its response

vars == <<server, posts, now, pubPending, sweepPending, gen, usage, last>>

\* ------------------------------------------------------------ request inputs
\* publishAt of a request body: absent/falsy, an ISO date for time t, or a
\* truthy value that is no date.
PublishAtInputs ==
    {[kind |-> "absent", t |-> 0], [kind |-> "invalid", t |-> 0]}
        \cup {[kind |-> "iso", t |-> t] : t \in Times}
\* postId of a request body: 0 is falsy; ids above Len(posts) name no row.
PostIdInputs == 0..MaxPosts
\* count of a request body: absent, or a number.
CountInputs ==
    {[kind |-> "absent", n |-> 0]} \cup {[kind |-> "num", n |-> n] : n \in {0, 2, 11}}
\* Texts the generation capability may put in an item.
GenTexts == {<<"h", "e", "i">>}

\* JSON.stringify of an array of items with the given texts, as the
\* capability writes it: [{text},{text}]
RECURSIVE Elements(_)
Elements(texts) ==
    IF texts = <<>> THEN <<>>
    ELSE <<"{">> \o Head(texts) \o <<"}">>
            \o (IF Len(texts) > 1 THEN <<",">> ELSE <<>>) \o Elements(Tail(texts))

ArrayOf(texts) == <<"[">> \o Elements(texts) \o <<"]">>

\* The same inside a fenced block labelled json.
Fenced(body) == <<"~", "~", "~", "j", "s", "o", "n", " ">> \o body \o <<" ", "~", "~", "~">>

\* Well-formed contents: arrays of up to MaxPosts items.
PlainContents ==
    {ArrayOf(texts) : texts \in UNION {[1..g -> GenTexts] : g \in 0..MaxPosts}}

\* What generatePlan meets when it runs: key tells whether
\* process.env.OPENAI_API_KEY is set, ok whether the capability answered
\* with a 2xx status, content what a 2xx answer carried.
\* NoAnswer: the call to the capability fails (a status outside 2xx).
NoAnswer == [key |-> TRUE, ok |-> FALSE, content |-> <<>>]

\* NoKey: no API key is configured.
NoKey == [key |-> FALSE, ok |-> FALSE, content |-> <<>>]

AnswersOf(contents) ==
    {NoAnswer} \cup {[key |-> TRUE, ok |-> TRUE, content |-> c] : c \in contents}

PlainAnswers == AnswersOf(PlainContents)

\* --------------------------------------------------------------- helpers
TimerId == 0         \* the setInterval timer, as the executor of a sweep

NoArg == [kind |-> "absent", t |-> 0]

Ids == DOMAIN posts

Min(a, b) == IF a <= b THEN a ELSE b

\* `req.userId` to the organization a statement is scoped to.
\* server.js: (SELECT organization_id FROM users WHERE id=$n).
OrgOfUser(u) == userOrg[u]

\* part_001 passes req.userId itself as organization_id.
LegacyOrgOfUser(u) == u

CallerOrg(u) == IF server = "server.js" THEN OrgOfUser(u) ELSE LegacyOrgOfUser(u)

\* profiles row keyed by user_id: users 1 and 2 have one.
hasProfile(u) == u \in {1, 2}

\* A completed step: the handler (op), the HTTP status and body it answered
\* with (code 0: no response is sent), the rows its statement changed and
\* the `published` count of the body (NULL when the body has none).  For a
\* schedule call that carried both fields, target tells whether the post it
\* named was the caller's organization's, another's, or no row at all.  For a
\* publishing statement, by is who ran it (a user, or the timer), rivals
\* pairs each row it flipped with the other executors whose statement was
\* waiting for the same row, contested holds the rows the step before
\* flipped while this one was waiting, and again says that the step before
\* was a successful run by the same executor, which changed the rows prev.
\* For a generate call that failed, err is the failure the handler met (what
\* it logs), and calls the requests it made to the generation capability.
Resp(op, code, body, rows) ==
    [op |-> op, code |-> code, body |-> body, rows |-> rows, count |-> NULL,
     target |-> "", by |-> NULL, rivals |-> {}, contested |-> {},
     again |-> FALSE, prev |-> {}, err |-> "", calls |-> 0]

NoLast == Resp("none", 0, "", {})

\* A generate call: where the handler is (pc), the organization, the post
\* count, the posts built and not yet inserted (queue), the ids of those
\* inserted, the requests made to the capability (calls) and the tokens
\* the call has added to organization_usage (tokensUsed).
IdleGen ==
    [pc |-> "idle", org |-> NULL, postCount |-> 0, queue |-> <<>>, ids |-> {},
     calls |-> 0, tokensUsed |-> 0]

Generating == {u \in Users : gen[u].pc # "idle"}

Inflight == Cardinality(pubPending) + sweepPending

\* --------------------------------------------------------------- Init
\* The counters of an organization with no organization_usage row for the
\* month yet; a missing row and a row of zeros are not told apart.
NoUsage == [tokens_used |-> 0, images_generated |-> 0]

Init ==
    /\ server \in Servers
    /\ posts = <<>>
    /\ now = 0
    /\ pubPending = {}
    /\ sweepPending = 0
    /\ gen = [u \in Users |-> IdleGen]
    /\ usage = [o \in Users |-> NoUsage]
    /\ last = NoLast

\* --------------------------------------------------------------- clock
Tick ==
    /\ now < MaxTime
    /\ now' = now + 1
    /\ last' = Resp("tick", 0, "", {})
    /\ UNCHANGED <<server, posts, pubPending, sweepPending, gen, usage>>

\* ------------------------------------------------------------ POST /api/schedule
\* server.js binds new Date(publishAt): a date string yields its timestamp,
\* anything else an Invalid Date, which makes the statement throw.
ValidDate(publishAt) == publishAt.kind = "iso"

\* part_001 binds publishAt itself: a date string is cast to its timestamp,
\* null/undefined is bound as NULL, anything else makes the cast throw.
LegacyValidDate(publishAt) == publishAt.kind \in {"iso", "absent"}

\* The value the timestamp parameter takes in the statement.
Timestamp(publishAt) == IF publishAt.kind = "iso" THEN publishAt.t ELSE NULL

\* Mutant: the UPDATE keyed by id alone.
ScheduleWhereAnyOrg(row, id, postId, u) == id = postId

\* Mutant: the UPDATE also keyed by the row not being published.
ScheduleWhereUnpublished(row, id, postId, u) ==
    /\ id = postId
    /\ OrgOfUser(u) # NULL
    /\ row.organization_id = OrgOfUser(u)
    /\ row.status # "published"

\* WHERE id=$3 AND organization_id=(SELECT organization_id FROM users WHERE id=$4)
ScheduleWhere(row, id, postId, u) ==
    /\ id = postId
    /\ OrgOfUser(u) # NULL
    /\ row.organization_id = OrgOfUser(u)

\* WHERE id = $2 AND organization_id = $3, with $3 = req.userId
LegacyScheduleWhere(row, id, postId, u) ==
    /\ id = postId
    /\ row.organization_id = LegacyOrgOfUser(u)

\* UPDATE posts SET scheduled_at=$1, status='scheduled' WHERE ...
ScheduleRow(row, publishAt) ==
    [row EXCEPT !.scheduled_at = Timestamp(publishAt), !.status = "scheduled"]

\* Mutant: only postId is required.
ScheduleMissingPostIdOnly(postId, publishAt) == postId = 0

\* if (!postId || !publishAt)
ScheduleMissing(postId, publishAt) == postId = 0 \/ publishAt.kind = "absent"

\* Whose post a schedule call by user u names.
Target(u, postId) ==
    IF postId \notin Ids THEN "missing"
    ELSE IF CallerOrg(u) # NULL /\ posts[postId].organization_id = CallerOrg(u)
         THEN "owned" ELSE "foreign"

\* The handler body shared by both servers, given the rows its WHERE matches.
ScheduleStep(u, postId, publishAt, matched, valid) ==
    IF ScheduleMissing(postId, publishAt)
    THEN /\ last' = Resp("schedule", 400, "postId and publishAt are required", {})
         /\ UNCHANGED posts
    ELSE \E ok \in BOOLEAN :
            IF ok /\ valid
            THEN /\ posts' = [p \in Ids |->
                        IF p \in matched THEN ScheduleRow(posts[p], publishAt)
                        ELSE posts[p]]
                 /\ last' = [Resp("schedule", 200, "Post scheduled", matched)
                                EXCEPT !.target = Target(u, postId)]
            ELSE /\ last' = [Resp("schedule", 500, "Failed to schedule post", {})
                                EXCEPT !.target = Target(u, postId)]
                 /\ UNCHANGED posts

Schedule(u, postId, publishAt) ==
    /\ server = "server.js"
    /\ ScheduleStep(u, postId, publishAt,
                    {p \in Ids : ScheduleWhere(posts[p], p, postId, u)},
                    ValidDate(publishAt))
    /\ UNCHANGED <<server, now, pubPending, sweepPending, gen, usage>>

LegacySchedule(u, postId, publishAt) ==
    /\ server = "part_001"
    /\ ScheduleStep(u, postId, publishAt,
                    {p \in Ids : LegacyScheduleWhere(posts[p], p, postId, u)},
                    LegacyValidDate(publishAt))
    /\ UNCHANGED <<server, now, pubPending, sweepPending, gen, usage>>

\* ------------------------------------------------- publishing due posts
\* The users with a publish request awaiting its UPDATE.
PendingUsers == {r[1] : r \in pubPending}

\* Mutant: keyed by status <> 'draft' instead of status = 'scheduled'.
PublishWhereNotDraft(row, u) ==
    /\ row.status # "draft"
    /\ row.scheduled_at # NULL
    /\ row.scheduled_at <= now
    /\ OrgOfUser(u) # NULL
    /\ row.organization_id = OrgOfUser(u)

\* Mutant: not keyed by status at all.
PublishWhereAnyStatus(row, u) ==
    /\ row.scheduled_at # NULL
    /\ row.scheduled_at <= now
    /\ OrgOfUser(u) # NULL
    /\ row.organization_id = OrgOfUser(u)

\* WHERE status='scheduled' AND scheduled_at <= NOW()
\*   AND organization_id=(SELECT organization_id FROM users WHERE id=$1)
PublishWhere(row, u) ==
    /\ row.status = "scheduled"
    /\ row.scheduled_at # NULL
    /\ row.scheduled_at <= now
    /\ OrgOfUser(u) # NULL
    /\ row.organization_id = OrgOfUser(u)

\* WHERE organization_id = $1 AND status = 'scheduled' AND scheduled_at <= $2,
\* with $2 the clock the handler read before it awaited the statement.
LegacyPublishWhere(row, u, ts) ==
    /\ row.organization_id = LegacyOrgOfUser(u)
    /\ row.status = "scheduled"
    /\ row.scheduled_at # NULL
    /\ row.scheduled_at <= ts

\* Mutant: keyed by status <> 'draft' instead of status = 'scheduled'.
SweepWhereNotDraft(row) ==
    /\ row.status # "draft"
    /\ row.scheduled_at # NULL
    /\ row.scheduled_at <= now

\* Mutant: scheduled_at < NOW().
SweepWhereStrict(row) ==
    /\ row.status = "scheduled"
    /\ row.scheduled_at # NULL
    /\ row.scheduled_at < now

\* WHERE status='scheduled' AND scheduled_at <= NOW()
SweepWhere(row) ==
    /\ row.status = "scheduled"
    /\ row.scheduled_at # NULL
    /\ row.scheduled_at <= now

\* SET status='published'
PublishRow(row) == [row EXCEPT !.status = "published"]

PublishRows(R) == [p \in Ids |-> IF p \in R THEN PublishRow(posts[p]) ELSE posts[p]]

\* The executors among the waiting requests pend and the sweeps waiting
\* timer sweeps whose statement covers row p as due.
RivalsOf(p, pend, sweeps) ==
    {r[1] : r \in {q \in pend :
                /\ CallerOrg(q[1]) = posts[p].organization_id
                /\ (q[2] = NULL \/ posts[p].scheduled_at <= q[2])}}
      \cup (IF sweeps > 0 THEN {TimerId} ELSE {})

\* The record of a publishing statement run by executor e that returned R,
\* with pend and sweeps still waiting.
PublishResp(op, e, code, body, R, pend, sweeps) ==
    [Resp(op, code, body, R) EXCEPT
        !.rivals = {pr \in R \X (Users \cup {TimerId}) :
                        pr[2] \in RivalsOf(pr[1], pend, sweeps)},
        !.by = e,
        !.contested = {p \in Ids : <<p, e>> \in last.rivals},
        !.again = (last.op = op /\ last.by = e /\ last.code = code /\ last.body = body),
        !.prev = IF last.op = op /\ last.by = e /\ last.code = code /\ last.body = body
                 THEN last.rows ELSE {}]

\* server.js: the UPDATE ... RETURNING * and the answer { published: n }.
PublishUpdate(u, pend) ==
    \E ok \in BOOLEAN :
        IF ok
        THEN LET R == {p \in Ids : PublishWhere(posts[p], u)} IN
             /\ posts' = PublishRows(R)
             /\ last' = [PublishResp("publish", u, 200, "published", R, pend, sweepPending)
                            EXCEPT !.count = Cardinality(R)]
        ELSE /\ last' = Resp("publish", 500, "Failed to publish scheduled posts", {})
             /\ UNCHANGED posts

\* part_001: the UPDATE against the clock value ts and the answer { message }.
LegacyPublishUpdate(u, ts, pend) ==
    \E ok \in BOOLEAN :
        IF ok
        THEN LET R == {p \in Ids : LegacyPublishWhere(posts[p], u, ts)} IN
             /\ posts' = PublishRows(R)
             /\ last' = PublishResp("publish", u, 200, "Scheduled posts published", R,
                                    pend, sweepPending)
        ELSE /\ last' = Resp("publish", 500, "Failed to publish scheduled posts", {})
             /\ UNCHANGED posts

\* publishScheduledPosts: the UPDATE runs; the count is logged; a failure is
\* logged and swallowed.
publishScheduledPosts(sweeps) ==
    \E ok \in BOOLEAN :
        IF ok
        THEN LET R == {p \in Ids : SweepWhere(posts[p])} IN
             /\ posts' = PublishRows(R)
             /\ last' = [PublishResp("sweep", TimerId, 0, "", R, pubPending, sweeps)
                            EXCEPT !.count = Cardinality(R)]
        ELSE /\ last' = Resp("sweep", 0, "Scheduler error publishing posts", {})
             /\ UNCHANGED posts

\* POST /api/publish-scheduled served with nothing else in between.
Publish(u) ==
    /\ server = "server.js"
    /\ u \notin PendingUsers
    /\ PublishUpdate(u, pubPending)
    /\ UNCHANGED <<server, now, pubPending, sweepPending, gen, usage>>

LegacyPublish(u) ==
    /\ server = "part_001"
    /\ u \notin PendingUsers
    /\ LegacyPublishUpdate(u, now, pubPending)
    /\ UNCHANGED <<server, now, pubPending, sweepPending, gen, usage>>

\* Mutant: the timer is cleared once a sweep has failed.
TimerSweepUntilError ==
    /\ server = "server.js"
    /\ ~(last.op = "sweep" /\ last.body # "")
    /\ publishScheduledPosts(sweepPending)
    /\ UNCHANGED <<server, now, pubPending, sweepPending, gen, usage>>

\* A timer tick of setInterval(publishScheduledPosts, 60 * 1000) whose
\* statement runs at once.
TimerSweep ==
    /\ server = "server.js"
    /\ publishScheduledPosts(sweepPending)
    /\ UNCHANGED <<server, now, pubPending, sweepPending, gen, usage>>

\* --- the same handlers with the statement awaited (SpecRace)
\* POST /api/publish-scheduled received; its UPDATE is awaited.
PublishRequest(u) ==
    /\ server = "server.js"
    /\ u \notin PendingUsers
    /\ Inflight < MaxInflight
    /\ pubPending' = pubPending \cup {<<u, NULL>>}
    /\ UNCHANGED <<server, posts, now, sweepPending, gen, usage, last>>

PublishExec(u) ==
    /\ server = "server.js"
    /\ <<u, NULL>> \in pubPending
    /\ pubPending' = pubPending \ {<<u, NULL>>}
    /\ PublishUpdate(u, pubPending \ {<<u, NULL>>})
    /\ UNCHANGED <<server, now, sweepPending, gen, usage>>

\* part_001: the handler reads the clock, then awaits its UPDATE.
LegacyPublishRequest(u) ==
    /\ server = "part_001"
    /\ u \notin PendingUsers
    /\ Inflight < MaxInflight
    /\ pubPending' = pubPending \cup {<<u, now>>}
    /\ UNCHANGED <<server, posts, now, sweepPending, gen, usage, last>>

LegacyPublishExec(u) ==
    /\ server = "part_001"
    /\ \E r \in pubPending :
        /\ r[1] = u
        /\ pubPending' = pubPending \ {r}
        /\ LegacyPublishUpdate(u, r[2], pubPending \ {r})
    /\ UNCHANGED <<server, now, sweepPending, gen, usage>>

\* The timer fires and the sweep's UPDATE is awaited, whether or not an
\* earlier sweep's still is.
SweepFire ==
    /\ server = "server.js"
    /\ Inflight < MaxInflight
    /\ sweepPending' = sweepPending + 1
    /\ UNCHANGED <<server, posts, now, pubPending, gen, usage, last>>

\* setInterval fires every minute whether or not the promise of an earlier
\* publishScheduledPosts has settled: the timer alone, up to MaxSweeps
\* sweeps awaiting their UPDATE.
TimerFire ==
    /\ server = "server.js"
    /\ pubPending = {}
    /\ sweepPending < MaxSweeps
    /\ sweepPending' = sweepPending + 1
    /\ UNCHANGED <<server, posts, now, pubPending, gen, usage, last>>

SweepRun ==
    /\ server = "server.js"
    /\ sweepPending > 0
    /\ sweepPending' = sweepPending - 1
    /\ publishScheduledPosts(sweepPending - 1)
    /\ UNCHANGED <<server, now, pubPending, gen, usage>>

\* ------------------------------------------------------------ moderation
\* const bannedWords = ['kielletty', 'väkivalta', 'rasismi'];
bannedWords ==
    { <<"k", "i", "e", "l", "l", "e", "t", "t", "y">>,
      <<"v", "ä", "k", "i", "v", "a", "l", "t", "a">>,
      <<"r", "a", "s", "i", "s", "m", "i">> }

UpperCase == <<"A", "B", "C", "D", "E", "F", "G", "H", "I", "J", "K", "L", "M", "N", "O", "P", "Q", "R", "S", "T", "U", "V", "W", "X", "Y", "Z", "Ä", "Ö">>
LowerCase == <<"a", "b", "c", "d", "e", "f", "g", "h", "i", "j", "k", "l", "m", "n", "o", "p", "q", "r", "s", "t", "u", "v", "w", "x", "y", "z", "ä", "ö">>

\* String.prototype.toLowerCase, character by character.
toLowerCase(text) ==
    [i \in 1..Len(text) |->
        IF \E k \in 1..Len(UpperCase) : UpperCase[k] = text[i]
        THEN LowerCase[CHOOSE k \in 1..Len(UpperCase) : UpperCase[k] = text[i]]
        ELSE text[i]]

\* Mutant: a match is not looked for at the two ends of the text.
includesInside(text, w) ==
    \E i \in 1..(Len(text) - Len(w) - 1) : SubSeq(text, i + 1, i + Len(w)) = w

\* String.prototype.includes
includes(text, w) ==
    \E i \in 0..(Len(text) - Len(w)) : SubSeq(text, i + 1, i + Len(w)) = w

\* bannedWords.some((w) => text.toLowerCase().includes(w))
some(words, text) == \E w \in words : includes(toLowerCase(text), w)

flagged(text) == some(bannedWords, text)

\* ------------------------------------------------- ai.js: generatePlan
\* The content of the capability's answer is a sequence of characters; the
\* character "~" stands for the backquote, three of which make a code fence.
Fence == <<"~", "~", "~">>

IsSpace(c) == c = " "

\* String.prototype.startsWith and its mirror image
startsWith(text, w) == Len(text) >= Len(w) /\ SubSeq(text, 1, Len(w)) = w

endsWith(text, w) ==
    Len(text) >= Len(w) /\ SubSeq(text, Len(text) - Len(w) + 1, Len(text)) = w

RECURSIVE trimStart(_)
trimStart(text) ==
    IF text # <<>> /\ IsSpace(Head(text)) THEN trimStart(Tail(text)) ELSE text

RECURSIVE trimEnd(_)
trimEnd(text) ==
    IF text # <<>> /\ IsSpace(text[Len(text)])
    THEN trimEnd(SubSeq(text, 1, Len(text) - 1)) ELSE text

\* String.prototype.trim
trim(text) == trimEnd(trimStart(text))

\* The first replace of the fence branch, on a text that starts with the
\* fence: the fence, an optional label json in any case, then whitespace.
StripOpeningFence(text) ==
    LET body == SubSeq(text, Len(Fence) + 1, Len(text))
        label == <<"j", "s", "o", "n">>
    IN IF Len(body) >= Len(label) /\ toLowerCase(SubSeq(body, 1, Len(label))) = label
       THEN trimStart(SubSeq(body, Len(label) + 1, Len(body)))
       ELSE trimStart(body)

\* The second replace: a fence at the very end of the text.
StripClosingFence(text) ==
    IF endsWith(text, Fence) THEN SubSeq(text, 1, Len(text) - Len(Fence)) ELSE text

\* raw = content.trim(), and in the fence branch the two replaces and trim()
StripFences(content) ==
    LET raw == trim(content) IN
    IF startsWith(raw, Fence)
    THEN trim(StripClosingFence(StripOpeningFence(raw)))
    ELSE raw

\* Position of the first occurrence of character c in text, 0 if none.
IndexOf(text, c) ==
    IF \E k \in 1..Len(text) : text[k] = c
    THEN CHOOSE k \in 1..Len(text) : text[k] = c /\ \A j \in 1..(k - 1) : text[j] # c
    ELSE 0

Structural == {"[", "]", "{", "}", ",", "~"}

SyntaxError == [kind |-> "SyntaxError", items |-> <<>>]

\* The elements of a JSON array after its opening bracket: objects
\* {text} separated by commas, up to the closing bracket that ends the text.
RECURSIVE ParseElements(_, _)
ParseElements(text, first) ==
    LET t == trimStart(text) IN
    IF t = <<>> THEN SyntaxError
    ELSE IF first /\ t = <<"]">> THEN [kind |-> "array", items |-> <<>>]
    ELSE IF Head(t) # "{" THEN SyntaxError
    ELSE LET close == IndexOf(t, "}")
             inner == SubSeq(t, 2, close - 1)
             rest == trimStart(SubSeq(t, close + 1, Len(t)))
         IN IF close = 0 \/ \E k \in 1..Len(inner) : inner[k] \in Structural
            THEN SyntaxError
            ELSE IF rest = <<"]">> THEN [kind |-> "array", items |-> <<inner>>]
            ELSE IF rest # <<>> /\ Head(rest) = ","
            THEN LET more == ParseElements(Tail(rest), FALSE) IN
                 IF more.kind = "array"
                 THEN [kind |-> "array", items |-> <<inner>> \o more.items]
                 ELSE SyntaxError
            ELSE SyntaxError

\* JSON.parse, on the JSON texts the model draws: an array of objects, a
\* lone object or number (valid JSON that is no array), or a syntax error.
JSONparse(raw) ==
    LET t == trim(raw) IN
    IF t = <<>> THEN SyntaxError
    ELSE IF Head(t) = "["
    THEN ParseElements(Tail(t), TRUE)
    ELSE IF t = <<"7">> THEN [kind |-> "value", items |-> <<>>]
    ELSE IF /\ Head(t) = "{"
            /\ IndexOf(t, "}") = Len(t)
            /\ \A k \in 2..(Len(t) - 1) : t[k] \notin Structural
    THEN [kind |-> "value", items |-> <<>>]
    ELSE SyntaxError

\* What generatePlan does with the content of a 2xx answer: the texts of
\* the items it returns, or the TypeError of posts.map on a non-array.
ParsePlan(content) ==
    LET raw == StripFences(content)
        parsed == JSONparse(raw)
    IN IF parsed.kind = "SyntaxError" THEN [throws |-> FALSE, items |-> <<raw>>]
       ELSE IF parsed.kind = "value" THEN [throws |-> TRUE, items |-> <<>>]
       ELSE [throws |-> FALSE, items |-> parsed.items]

\* posts.map((p) => ({ text: p.text || '', hashtags: ... })): the objects
\* the model draws carry a text and no hashtags.
Normalize(texts) == [i \in 1..Len(texts) |-> [text |-> texts[i], hashtags |-> <<>>]]

\* Mutant: a failed request to the capability is made a second time.
CallsRetry(answer) == IF ~answer.key THEN 0 ELSE IF ~answer.ok THEN 2 ELSE 1

\* The requests generatePlan makes to the capability: none when the key is
\* missing (it throws first), otherwise the one await fetchFn(...).
Calls(answer) == IF ~answer.key THEN 0 ELSE 1

\* Mutant: a failure of the capability degrades to one empty item.
PlanOfSwallow(answer) ==
    IF ~answer.ok
    THEN [throws |-> FALSE, err |-> "", calls |-> Calls(answer),
          items |-> Normalize(<< <<>> >>)]
    ELSE LET plan == ParsePlan(answer.content) IN
         [throws |-> plan.throws, err |-> IF plan.throws THEN "TypeError" ELSE "",
          calls |-> Calls(answer), items |-> Normalize(plan.items)]

\* The outcome of generatePlan: it throws (err is the error thrown), or
\* returns the normalised items.
PlanOf(answer) ==
    IF ~answer.key
    THEN [throws |-> TRUE, err |-> "OPENAI_API_KEY not configured",
          calls |-> Calls(answer), items |-> <<>>]
    ELSE IF ~answer.ok
    THEN [throws |-> TRUE, err |-> "OpenAI API error",
          calls |-> Calls(answer), items |-> <<>>]
    ELSE LET plan == ParsePlan(answer.content) IN
         [throws |-> plan.throws, err |-> IF plan.throws THEN "TypeError" ELSE "",
          calls |-> Calls(answer), items |-> Normalize(plan.items)]

\* ------------------------------------------------------------ POST /api/generate
\* count && Number(count) > 0 ? Math.min(Number(count), 10) : 5
postCount(count) ==
    IF count.kind = "num" /\ count.n > 0 THEN Min(count.n, MaxCount) ELSE DefaultCount

\* Rows the posts table can still take, given the inserts already queued.
RECURSIVE Queued(_)
Queued(S) ==
    IF S = {} THEN 0
    ELSE LET u == CHOOSE v \in S : TRUE IN Len(gen[u].queue) + Queued(S \ {u})

Room == MaxPosts - Len(posts) - Queued(Users)

\* The post objects the handler builds from what generatePlan returned:
\* scheduled_at is today plus the index in days, status 'draft'.
BuildPosts(org, generated) ==
    [i \in 1..Len(generated) |->
        [organization_id |-> org,
         text |-> generated[i].text,
         hashtags |-> generated[i].hashtags,
         scheduled_at |-> now + (i - 1),
         flagged |-> flagged(generated[i].text),
         status |-> "draft"]]

\* What the handler answers for a failure: the two early returns, and the
\* catch block for every error thrown inside the try.
Outcome(err) ==
    IF err = "Organization not found" THEN [code |-> 400, body |-> err]
    ELSE IF err = "Profile not found" THEN [code |-> 400, body |-> err]
    ELSE [code |-> 500, body |-> "Failed to generate posts"]

\* The response of a generate call that fails with err after calls requests
\* to the capability.
Failed(err, calls) ==
    [Resp("generate", Outcome(err).code, Outcome(err).body, {})
        EXCEPT !.err = err, !.calls = calls]

\* The request arrives; organization and profile are looked up.  profile
\* tells whether the profiles table holds a row for the user.
GenerateRequest(u, count, profile) ==
    /\ server = "server.js"
    /\ gen[u].pc = "idle"
    /\ Cardinality(Generating) < MaxGenerating
    /\ \E ok \in BOOLEAN :
          IF ~ok
          THEN /\ last' = Failed("query", 0)
               /\ UNCHANGED gen
          ELSE IF OrgOfUser(u) = NULL
          THEN /\ last' = Failed("Organization not found", 0)
               /\ UNCHANGED gen
          ELSE IF ~profile
          THEN /\ last' = Failed("Profile not found", 0)
               /\ UNCHANGED gen
          ELSE /\ gen' = [gen EXCEPT ![u] =
                            [IdleGen EXCEPT !.pc = "ai", !.org = OrgOfUser(u),
                                            !.postCount = postCount(count)]]
               /\ UNCHANGED last
    /\ UNCHANGED <<server, posts, now, pubPending, sweepPending, usage>>

\* await generatePlan(profile, postCount) settles: it throws, or returns the
\* items parsed from the capability's content, whatever their number.
generatePlan(u, answer) ==
    /\ server = "server.js"
    /\ gen[u].pc = "ai"
    /\ LET plan == PlanOf(answer) IN
       /\ Len(plan.items) <= Room
       /\ IF plan.throws
          THEN /\ last' = Failed(plan.err, plan.calls)
               /\ gen' = [gen EXCEPT ![u] = IdleGen]
          ELSE IF plan.items = <<>>
          THEN /\ last' = [Resp("generate", 201, "posts", {}) EXCEPT !.calls = plan.calls]
               /\ gen' = [gen EXCEPT ![u] = IdleGen]
          ELSE /\ gen' = [gen EXCEPT ![u].pc = "ins",
                                     ![u].calls = plan.calls,
                                     ![u].queue = BuildPosts(gen[u].org, plan.items)]
               /\ UNCHANGED last
    /\ UNCHANGED <<server, posts, now, pubPending, sweepPending, usage>>

\* Mutant: a failed INSERT is skipped and the loop goes on.
InsertStepSwallow(u, errBody) ==
    /\ gen[u].pc = "ins"
    /\ \E ok \in BOOLEAN :
          /\ posts' = IF ok THEN Append(posts, Head(gen[u].queue)) ELSE posts
          /\ IF Len(gen[u].queue) = 1
             THEN /\ gen' = [gen EXCEPT ![u] = IdleGen]
                  /\ last' = [Resp("generate", 201, "posts",
                                   gen[u].ids \cup (IF ok THEN {Len(posts) + 1} ELSE {}))
                                 EXCEPT !.calls = gen[u].calls]
             ELSE /\ gen' = [gen EXCEPT ![u].queue = Tail(@),
                                        ![u].ids = @ \cup (IF ok THEN {Len(posts) + 1} ELSE {})]
                  /\ last' = Resp("insert", 0, "", {})

\* Mutant: the INSERTs run in a transaction that a failure rolls back.
InsertStepRollback(u, errBody) ==
    /\ gen[u].pc = "ins"
    /\ \E ok \in BOOLEAN :
          IF ok
          THEN /\ posts' = Append(posts, Head(gen[u].queue))
               /\ IF Len(gen[u].queue) = 1
                  THEN /\ gen' = [gen EXCEPT ![u] = IdleGen]
                       /\ last' = [Resp("generate", 201, "posts",
                                        gen[u].ids \cup {Len(posts) + 1})
                                      EXCEPT !.calls = gen[u].calls]
                  ELSE /\ gen' = [gen EXCEPT ![u].queue = Tail(@),
                                             ![u].ids = @ \cup {Len(posts) + 1}]
                       /\ last' = Resp("insert", 0, "", {Len(posts) + 1})
          ELSE /\ gen' = [gen EXCEPT ![u] = IdleGen]
               /\ last' = [Resp("generate", 500, errBody, {})
                              EXCEPT !.err = "insert", !.calls = gen[u].calls]
               /\ posts' = SubSeq(posts, 1, Len(posts) - Cardinality(gen[u].ids))

\* One awaited INSERT INTO posts of the persistence loop; after the last one
\* the handler answers 201, and a failed one makes it answer 500.
InsertStep(u, errBody) ==
    /\ gen[u].pc = "ins"
    /\ \E ok \in BOOLEAN :
          IF ok
          THEN /\ posts' = Append(posts, Head(gen[u].queue))
               /\ IF Len(gen[u].queue) = 1
                  THEN /\ gen' = [gen EXCEPT ![u] = IdleGen]
                       /\ last' = [Resp("generate", 201, "posts",
                                        gen[u].ids \cup {Len(posts) + 1})
                                      EXCEPT !.calls = gen[u].calls]
                  ELSE /\ gen' = [gen EXCEPT ![u].queue = Tail(@),
                                             ![u].ids = @ \cup {Len(posts) + 1}]
                       /\ last' = Resp("insert", 0, "", {Len(posts) + 1})
          ELSE /\ gen' = [gen EXCEPT ![u] = IdleGen]
               /\ last' = [Resp("generate", 500, errBody, {})
                              EXCEPT !.err = "insert", !.calls = gen[u].calls]
               /\ UNCHANGED posts

GenerateInsert(u) ==
    /\ server = "server.js"
    /\ InsertStep(u, "Failed to generate posts")
    /\ UNCHANGED <<server, now, pubPending, sweepPending, usage>>

\* ------------------------------------------- part_001: POST /api/generate
Digits == <<"0", "1", "2", "3", "4", "5", "6", "7", "8", "9">>

\* Decimal digits of a number inside a template literal.
RECURSIVE Decimal(_)
Decimal(n) == IF n < 10 THEN <<Digits[n + 1]>> ELSE Decimal(n \div 10) \o <<Digits[(n % 10) + 1]>>

\* `Postaus ${i + 1} yritykselle ${companyName}. Toimiala: ${industry}.
\* Kampanja: ${campaign}.` with industry and campaign at their default ''.
LegacyText(i, companyName) ==
    <<"P", "o", "s", "t", "a", "u", "s", " ">> \o Decimal(i + 1)
        \o <<" ", "y", "r", "i", "t", "y", "k", "s", "e", "l", "l", "e", " ">> \o companyName
        \o <<".", " ", "T", "o", "i", "m", "i", "a", "l", "a", ":", " ", ".", " ", "K", "a", "m", "p", "a", "n", "j", "a", ":", " ", ".">>

\* count = 5 by default; the loop runs while i < count.
LegacyCount(count) == IF count.kind = "absent" THEN DefaultCount ELSE count.n

RECURSIVE SumLen(_)
\* generatedPosts.reduce((sum, post) => sum + post.text.length, 0)
SumLen(texts) == IF texts = <<>> THEN 0 ELSE Len(Head(texts)) + SumLen(Tail(texts))

\* Cap of the usage counter in the model: what MaxPosts + 1 posts add to it.
UsageCap == (MaxPosts + 1) * Len(LegacyText(0, <<>>))

\* const imagesGenerated = 0
imagesGenerated == 0

\* The companyName of a request body: absent (default ''), or a name.
NoCompany == <<>>

PlainCompanies == {NoCompany}

\* INSERT INTO posts (...) VALUES ($1, $2, $3, $4, 'draft', NULL); the
\* statement names no flagged column.
LegacyRows(u, texts) ==
    [i \in 1..Len(texts) |->
        [organization_id |-> LegacyOrgOfUser(u),
         text |-> texts[i],
         hashtags |-> <<"#yritys", "#some">>,
         scheduled_at |-> NULL,
         status |-> "draft"]]

\* Mutant: DO UPDATE SET tokens_used = $3, images_generated = $4
UsageOverwrite(u, tokensUsed) ==
    [usage EXCEPT ![LegacyOrgOfUser(u)] =
        [tokens_used |-> tokensUsed, images_generated |-> imagesGenerated]]

\* ON CONFLICT (organization_id, month) DO UPDATE
\*   SET tokens_used = organization_usage.tokens_used + $3
\*       images_generated = organization_usage.images_generated + $4
UsageUpsert(u, tokensUsed) ==
    [usage EXCEPT ![LegacyOrgOfUser(u)] =
        [tokens_used |-> @.tokens_used + tokensUsed,
         images_generated |-> @.images_generated + imagesGenerated]]

\* The request arrives, the posts are built and the usage upsert runs.
LegacyGenerateRequest(u, count, companyName) ==
    /\ server = "part_001"
    /\ gen[u].pc = "idle"
    /\ Cardinality(Generating) < MaxGenerating
    /\ LegacyCount(count) <= Room
    /\ LET texts == [i \in 1..LegacyCount(count) |-> LegacyText(i - 1, companyName)]
           tokensUsed == SumLen(texts)
       IN /\ usage[LegacyOrgOfUser(u)].tokens_used + tokensUsed <= UsageCap
          /\ \E ok \in BOOLEAN :
                IF ~ok
                THEN /\ last' = [Resp("generate", 500, "Failed to generate content", {})
                                    EXCEPT !.err = "query"]
                     /\ UNCHANGED <<gen, usage>>
                ELSE /\ usage' = UsageUpsert(u, tokensUsed)
                     /\ IF texts = <<>>
                        THEN /\ last' = Resp("generate", 201, "posts", {})
                             /\ UNCHANGED gen
                        ELSE /\ gen' = [gen EXCEPT ![u] =
                                          [IdleGen EXCEPT !.pc = "ins",
                                                          !.org = LegacyOrgOfUser(u),
                                                          !.postCount = LegacyCount(count),
                                                          !.queue = LegacyRows(u, texts),
                                                          !.tokensUsed = tokensUsed]]
                             /\ last' = Resp("upsert", 0, "", {})
    /\ UNCHANGED <<server, posts, now, pubPending, sweepPending>>

LegacyGenerateInsert(u) ==
    /\ server = "part_001"
    /\ InsertStep(u, "Failed to generate content")
    /\ UNCHANGED <<server, now, pubPending, sweepPending, usage>>

\* ------------------------------------------------------------------ Next
Next ==
    \/ Tick
    \/ \E u \in Users, postId \in PostIdInputs, publishAt \in PublishAtInputs :
          Schedule(u, postId, publishAt)
    \/ \E u \in Users, postId \in PostIdInputs, publishAt \in PublishAtInputs :
          LegacySchedule(u, postId, publishAt)
    \/ \E u \in Users : Publish(u)
    \/ \E u \in Users : LegacyPublish(u)
    \/ TimerSweep
    \/ \E u \in Users, count \in CountInputs : GenerateRequest(u, count, hasProfile(u))
    \/ \E u \in Users, answer \in PlainAnswers : generatePlan(u, answer)
    \/ \E u \in Users : GenerateInsert(u)
    \/ \E u \in Users, count \in CountInputs, companyName \in PlainCompanies :
          LegacyGenerateRequest(u, count, companyName)
    \/ \E u \in Users : LegacyGenerateInsert(u)

Spec == Init /\ [][Next]_vars

\* Next, with the publish requests and the sweeps awaiting their statement.
NextRace ==
    \/ Next
    \/ \E u \in Users : PublishRequest(u)
    \/ \E u \in Users : PublishExec(u)
    \/ \E u \in Users : LegacyPublishRequest(u)
    \/ \E u \in Users : LegacyPublishExec(u)
    \/ SweepFire
    \/ SweepRun

SpecRace == Init /\ [][NextRace]_vars

\* --- generation with the capability answering anything
\* Texts that exercise the moderation filter: a banned word as the whole
\* text and capitalised, at the end, at the start, in upper case with a
\* non-ASCII letter, and a near miss.
ModTexts ==
    { <<"R", "a", "s", "i", "s", "m", "i">>,
      <<"e", "i", " ", "r", "a", "s", "i", "s", "m", "i">>,
      <<"r", "a", "s", "i", "s", "m", "i", "a">>,
      <<"V", "Ä", "K", "I", "V", "A", "L", "T", "A">>,
      <<"r", "a", "s", "i", "s", "m">> }

\* Contents of a 2xx answer: the well-formed arrays, arrays with the texts
\* above, a fenced array, a fenced array cut short, prose, an empty content,
\* and valid JSON that is not an array (a number, an object).
GenContents ==
    PlainContents
        \cup {ArrayOf(<<t>>) : t \in ModTexts}
        \cup { ArrayOf(<< <<"h", "e", "i">>, <<"R", "a", "s", "i", "s", "m", "i">> >>),
               Fenced(ArrayOf(<< <<"h", "e", "i">> >>)),
               Fenced(<<"[", "{", "h", "e", "i", "}">>),
               <<"h", "e", "i">>,
               <<>>,
               <<"7">>,
               <<"{", "h", "e", "i", "}">> }

GenAnswers == AnswersOf(GenContents) \cup {NoKey}

GenCountInputs == CountInputs \cup {[kind |-> "num", n |-> 1]}

GenCompanies == {NoCompany, <<"R", "a", "s", "i", "s", "m", "i">>}

\* The generation handlers of either server and the clock.
NextGen ==
    \/ Tick
    \/ \E u \in Users, count \in GenCountInputs, profile \in BOOLEAN :
          GenerateRequest(u, count, profile)
    \/ \E u \in Users, answer \in GenAnswers : generatePlan(u, answer)
    \/ \E u \in Users : GenerateInsert(u)
    \/ \E u \in Users, count \in GenCountInputs, companyName \in GenCompanies :
          LegacyGenerateRequest(u, count, companyName)
    \/ \E u \in Users : LegacyGenerateInsert(u)

SpecGen == Init /\ [][NextGen]_vars

\* The timer of server.js with slow statements, next to the handlers that
\* create and schedule posts.
NextTimer ==
    \/ Tick
    \/ \E u \in Users, postId \in PostIdInputs, publishAt \in PublishAtInputs :
          Schedule(u, postId, publishAt)
    \/ \E u \in Users, count \in CountInputs : GenerateRequest(u, count, hasProfile(u))
    \/ \E u \in Users, answer \in PlainAnswers : generatePlan(u, answer)
    \/ \E u \in Users : GenerateInsert(u)
    \/ TimerFire
    \/ SweepRun

SpecTimer == Init /\ [][NextTimer]_vars

\* A timer tick whose UPDATE succeeds.
SweepSucceeds == TimerSweep /\ last'.op = "sweep" /\ last'.body = ""

\* Spec with the timer firing again and again and the store not failing
\* forever: a sweep that succeeds is eventually taken while it would change
\* something.
SpecLive == Spec /\ WF_vars(SweepSucceeds)

TypeOK ==
    /\ server \in Servers
    /\ now \in Times
    /\ Len(posts) <= MaxPosts
    /\ \A p \in Ids : posts[p].status \in Statuses
    /\ sweepPending \in 0..MaxSweeps
    /\ Inflight <= MaxInflight \/ pubPending = {}

\* =================================================================== claims

\* C1: once a post's status is `published` it never afterwards becomes
\* `draft` or `scheduled`, whatever is called.
C1_PublishedIsFinal ==
    [][\A p \in Ids : posts[p].status = "published" => posts'[p].status = "published"]_vars

\* C6: a schedule call that targets a `published` post leaves that post's
\* status and scheduled timestamp unchanged.
C6_PublishedImmutable ==
    [][last'.op = "schedule" =>
          \A p \in Ids : posts[p].status = "published" =>
              /\ posts'[p].status = posts[p].status
              /\ posts'[p].scheduled_at = posts[p].scheduled_at]_vars

\* C9: a schedule call naming a post of another organization, or no post at
\* all, is answered with an error, never acknowledged as a success.
C9_ForeignScheduleRejected ==
    (last.op = "schedule" /\ last.target \in {"foreign", "missing"}) => last.code # 200

\* C2: when a scoped publish call and the timer sweep wait for their
\* statement over the same due post, the one that runs second changes no row
\* the first one flipped: each contested post is published exactly once.
C2_RaceFlipsOnce ==
    /\ last.contested \cap last.rows = {}
    /\ \A p \in last.contested : posts[p].status = "published"

\* A sweep that ran right after a scoped call flipped a post both waited for.
C2_Witness == last.op = "sweep" /\ last.contested # {}

\* C3: a publish-due run that immediately follows a successful run of the
\* same scope (no other step, no clock advance) publishes nothing and leaves
\* the store as it was.
C3_PublishDueIdempotent ==
    [][last'.again => (last'.rows = {} /\ posts' = posts)]_vars

\* A second run right after a first one that published something.
C3_Witness == last.again /\ last.prev # {} /\ last.rows = {}

\* C4: a post becomes `published` only in a publish-due step, from
\* `scheduled` and with scheduled_at <= now; a new row is never published,
\* and a draft never is, however old its provisional date.
C4_OnlyDueScheduledPublished ==
    [][\A p \in DOMAIN posts' :
          posts'[p].status = "published" =>
              /\ p \in Ids
              /\ \/ posts[p].status = "published"
                 \/ /\ posts[p].status = "scheduled"
                    /\ posts[p].scheduled_at # NULL
                    /\ posts[p].scheduled_at <= now
                    /\ last'.op \in {"publish", "sweep"}
                    /\ p \in last'.rows]_vars

\* A sweep published something and left a draft whose date has passed as it was.
C4_Witness ==
    /\ last.op = "sweep"
    /\ last.rows # {}
    /\ \E q \in Ids :
          /\ posts[q].status = "draft"
          /\ posts[q].scheduled_at # NULL
          /\ posts[q].scheduled_at <= now

\* C5: every post whose status is `scheduled` has a non-null scheduled
\* timestamp.
C5_ScheduledHasTimestamp ==
    \A p \in Ids : posts[p].status = "scheduled" => posts[p].scheduled_at # NULL

\* A row inserted with scheduled_at NULL (part_001) that was then scheduled.
C5_Witness ==
    /\ server = "part_001"
    /\ last.op = "schedule"
    /\ \E p \in last.rows : posts[p].status = "scheduled"

\* C7: an acknowledged schedule call on a post of the caller's organization
\* leaves it `scheduled` at publishAt whatever its status was, is never
\* answered 400, and changes nothing when the post is already so.
C7_ScheduleSets ==
    [][\A u \in Users, postId \in PostIdInputs, publishAt \in PublishAtInputs :
          ( /\ postId # 0
            /\ publishAt.kind = "iso"
            /\ Target(u, postId) = "owned"
            /\ last'.op = "schedule"
            /\ Schedule(u, postId, publishAt) \/ LegacySchedule(u, postId, publishAt) )
          => /\ last'.code \in {200, 500}
             /\ last'.code = 200 =>
                  /\ posts'[postId].status = "scheduled"
                  /\ posts'[postId].scheduled_at = publishAt.t
                  /\ ( /\ posts[postId].status = "scheduled"
                       /\ posts[postId].scheduled_at = publishAt.t ) => posts' = posts]_vars

\* An acknowledged schedule call on an owned post.
C7_Witness ==
    /\ last.op = "schedule"
    /\ last.code = 200
    /\ last.target = "owned"
    /\ \E p \in last.rows : posts[p].status = "scheduled"

\* A step of an organization-scoped handler called by user u.
OrgScopedStep(u) ==
    \/ \E postId \in PostIdInputs, publishAt \in PublishAtInputs :
          Schedule(u, postId, publishAt) \/ LegacySchedule(u, postId, publishAt)
    \/ Publish(u) \/ LegacyPublish(u) \/ PublishExec(u) \/ LegacyPublishExec(u)
    \/ \E count \in CountInputs :
          \/ GenerateRequest(u, count, hasProfile(u))
          \/ \E companyName \in PlainCompanies : LegacyGenerateRequest(u, count, companyName)
    \/ \E answer \in PlainAnswers : generatePlan(u, answer)
    \/ GenerateInsert(u) \/ LegacyGenerateInsert(u)

\* C8: no step of an organization-scoped handler changes a post of another
\* organization than the caller's, and a schedule call that names such a
\* post changes no row.
C8_OrgIsolation ==
    [][/\ \A p \in Ids :
             posts'[p] # posts[p] =>
                 \A u \in Users : OrgScopedStep(u) => posts[p].organization_id = CallerOrg(u)
       /\ posts' # posts =>
             \A u \in Users, postId \in PostIdInputs, publishAt \in PublishAtInputs :
                 Target(u, postId) = "foreign" =>
                     ~(Schedule(u, postId, publishAt) \/ LegacySchedule(u, postId, publishAt))]_vars

\* A schedule call on another organization's post ran its statement.
C8_Witness ==
    /\ last.op = "schedule"
    /\ last.code = 200
    /\ last.target = "foreign"
    /\ last.rows = {}

\* The step flips exactly those scheduled posts among scope whose
\* scheduled_at is <= t.
FlipsDue(scope, t) ==
    \A p \in scope :
        posts[p].status = "scheduled" =>
            (posts'[p].status = "published" <=> posts[p].scheduled_at <= t)

\* C10: a successful publish-due run at time t publishes a scheduled post of
\* its scope if and only if the post's scheduled timestamp is <= t.
C10_DueBoundaryInclusive ==
    [][/\ \A u \in Users :
             LET Mine == {p \in Ids : posts[p].organization_id = CallerOrg(u)} IN
             /\ ((Publish(u) \/ PublishExec(u) \/ LegacyPublish(u)) /\ last'.code = 200)
                   => FlipsDue(Mine, now)
             /\ \A r \in pubPending :
                   ( /\ r[1] = u
                     /\ LegacyPublishExec(u)
                     /\ pubPending' = pubPending \ {r}
                     /\ last'.code = 200 ) => FlipsDue(Mine, r[2])
       /\ ((TimerSweep \/ SweepRun) /\ last'.op = "sweep" /\ last'.body = "")
              => FlipsDue(Ids, now)]_vars

\* A sweep published a post scheduled for exactly now and left one scheduled
\* for later as it was.
C10_Witness ==
    /\ last.op = "sweep"
    /\ \E p \in last.rows : posts[p].scheduled_at = now
    /\ \E q \in Ids : posts[q].status = "scheduled" /\ posts[q].scheduled_at = now + 1

\* C11: a successful scoped publish-due call answers with a count equal to
\* the number of posts it moved from `scheduled` to `published`, all of them
\* of the caller's organization.
C11_PublishCount ==
    [][\A u \in Users :
          ( /\ last'.op = "publish"
            /\ last'.code = 200
            /\ Publish(u) \/ PublishExec(u) \/ LegacyPublish(u) \/ LegacyPublishExec(u) )
          => LET moved == {p \in Ids : /\ posts[p].status = "scheduled"
                                       /\ posts'[p].status = "published"}
             IN /\ last'.count = Cardinality(moved)
                /\ \A p \in moved : posts[p].organization_id = CallerOrg(u)]_vars

\* C12: a sweep whose UPDATE fails changes no post; the timer stays armed
\* after it, and the next sweep that succeeds publishes exactly the posts
\* that are due then.
C12_SweepFailureTolerated ==
    /\ [](server = "server.js" => ENABLED TimerSweep)
    /\ [][/\ ((TimerSweep \/ SweepRun) /\ last'.op = "sweep" /\ last'.body # "")
              => posts' = posts
          /\ (last.op = "sweep" /\ last.body # "" /\ SweepSucceeds)
              => FlipsDue(Ids, now)]_vars

\* A sweep has just failed and left a due post scheduled.
C12_Witness ==
    /\ last.op = "sweep"
    /\ last.body = "Scheduler error publishing posts"
    /\ \E p \in Ids : posts[p].status = "scheduled" /\ posts[p].scheduled_at <= now

\* C13: with the timer firing and the store eventually succeeding, a post
\* that is scheduled and due is eventually published by a sweep, unless it is
\* rescheduled to a later time.
C13_DueEventuallyPublished ==
    \A p \in 1..MaxPosts :
        ( /\ server = "server.js"
          /\ p \in Ids
          /\ posts[p].status = "scheduled"
          /\ posts[p].scheduled_at <= now )
        ~> ( /\ p \in Ids
             /\ \/ posts[p].status = "published"
                \/ posts[p].scheduled_at > now )

\* A sweep has published every post it matched.
C13_Witness ==
    /\ last.op = "sweep"
    /\ last.by = TimerId
    /\ last.rows # {}
    /\ \A p \in last.rows : posts[p].status = "published"

\* C14: the handler builds one post per item the generator returned, in the
\* generator's order, each with status `draft` and scheduled date equal to
\* the creation date plus its index in days; the posts are inserted in that
\* order as built, and a 201 answer carries all of them.
C14_DraftsDatedByIndex ==
    [][\A u \in Users :
          /\ (gen[u].pc # "ins" /\ gen'[u].pc = "ins") =>
                /\ \A i \in 1..Len(gen'[u].queue) :
                      /\ gen'[u].queue[i].status = "draft"
                      /\ gen'[u].queue[i].scheduled_at = now + (i - 1)
                /\ \A answer \in GenAnswers :
                      generatePlan(u, answer) =>
                          /\ Len(gen'[u].queue) = Len(PlanOf(answer).items)
                          /\ \A i \in 1..Len(gen'[u].queue) :
                                gen'[u].queue[i].text = PlanOf(answer).items[i].text
          /\ (gen[u].pc = "ins" /\ posts' # posts) =>
                posts' = Append(posts, Head(gen[u].queue))
          /\ (gen[u].pc = "ins" /\ gen'[u].pc = "idle" /\ last'.code = 201) =>
                Cardinality(last'.rows) = Len(gen[u].queue) + Cardinality(gen[u].ids)]_vars

\* C15: generatePlan never returns, and one generate call never persists,
\* more items than the clamped count it was asked for.
C15_AtMostCount ==
    [][\A u \in Users :
          /\ (gen[u].pc = "ai" /\ gen'[u].pc = "ins") =>
                Len(gen'[u].queue) <= gen[u].postCount
          /\ (gen[u].pc = "ins" /\ gen'[u].pc = "idle" /\ last'.code = 201) =>
                Cardinality(last'.rows) <= gen[u].postCount]_vars

\* The lowercased text has the term w at some offset, its two ends included.
HasTerm(text, w) ==
    \E k \in 0..Len(text) :
        startsWith(SubSeq(toLowerCase(text), k + 1, Len(text)), w)

C17_FlaggedDraftCarriesFlag ==
    \A p \in Ids :
        flagged(posts[p].text) =>
            /\ posts[p].status = "draft"
            /\ "flagged" \in DOMAIN posts[p]
            /\ posts[p].flagged

\* C18: when a generation call answers 201, the tokens-used counter of its
\* organization holds at least the total length of the texts it generated.
C18_UsageCountsTexts ==
    [][\A u \in Users :
          (gen[u].pc = "ins" /\ gen'[u].pc = "idle" /\ last'.code = 201) =>
              usage'[gen[u].org].tokens_used >=
                  SumLen([i \in 1..Len(posts') |->
                            IF i \in last'.rows THEN posts'[i].text ELSE <<>>])]_vars

\* C19: no step decreases the tokens-used or the images-generated counter
\* of any organization.
C19_UsageMonotonic ==
    [][\A o \in Users :
          /\ usage'[o].tokens_used >= usage[o].tokens_used
          /\ usage'[o].images_generated >= usage[o].images_generated]_vars

\* An organization whose counter has been added to by two calls.
C19_Witness ==
    \E o \in Users :
        /\ usage[o].tokens_used =
              Len(LegacyText(0, NoCompany)) + Len(LegacyText(0, <<"R", "a", "s", "i", "s", "m", "i">>))
        /\ last.op = "generate"
        /\ last.code = 201

\* C20: when the content of a 2xx answer, with its fences stripped, does not
\* parse as an array of items, generatePlan does not throw: it returns one
\* item whose text is the stripped content and whose hashtags are empty.
C20_UnparseableYieldsOneItem ==
    [][\A u \in Users :
          gen[u].pc = "ai" =>
              \A answer \in GenAnswers :
                  ( /\ answer.ok
                    /\ JSONparse(StripFences(answer.content)).kind # "array"
                    /\ generatePlan(u, answer) )
                  => /\ gen'[u].pc = "ins"
                     /\ Len(gen'[u].queue) = 1
                     /\ gen'[u].queue[1].text = StripFences(answer.content)
                     /\ gen'[u].queue[1].hashtags = <<>>]_vars

\* C21: whenever the capability answers with a 2xx status, the generate call
\* of a user with a profile gets at least one post from generatePlan, and a
\* call that answers 201 has stored at least one post.
C21_AtLeastOnePost ==
    [][/\ \A u \in Users :
             gen[u].pc = "ai" =>
                 \A answer \in GenAnswers :
                     (answer.ok /\ generatePlan(u, answer))
                         => gen'[u].pc = "ins" /\ gen'[u].queue # <<>>
       /\ (server = "server.js" /\ last'.op = "generate" /\ last'.code = 201)
             => last'.rows # {} /\ last'.rows \subseteq DOMAIN posts']_vars

\* C22: when generatePlan fails, because no key is configured or because
\* the capability answers with a status outside 2xx, the generate call ends
\* there with an error response; no post is stored and no usage counter
\* changes.
C22_GeneratorFailureAborts ==
    [][\A u \in Users :
          gen[u].pc = "ai" =>
              \A answer \in {NoKey, NoAnswer} :
                  generatePlan(u, answer)
                      => /\ last'.op = "generate"
                         /\ last'.code >= 400
                         /\ last'.rows = {}
                         /\ gen'[u] = IdleGen
                         /\ posts' = posts
                         /\ usage' = usage]_vars

\* A generate call has just failed on the missing key, with a post of an
\* earlier call in the store.
C22_Witness ==
    /\ last.op = "generate"
    /\ last.err = "OPENAI_API_KEY not configured"
    /\ last.code = 500
    /\ posts # <<>>
    /\ \A u \in Users : gen[u] = IdleGen

\* The failure kinds the caller is to tell apart: no profile, no key, the
\* capability failing, an insert failing.
ErrorKinds ==
    {"Profile not found", "OPENAI_API_KEY not configured", "OpenAI API error", "insert"}

\* C23: the response of a generate call that failed for one of the four
\* kinds is not a success and differs from the response the handler gives
\* for each of the other three kinds.
C23_FailuresDistinguished ==
    (server = "server.js" /\ last.op = "generate" /\ last.err \in ErrorKinds)
        => /\ last.code >= 400
           /\ \A k \in ErrorKinds \ {last.err} :
                 Outcome(k) # [code |-> last.code, body |-> last.body]

\* C24: a generate call by a user with no profile fails with 'Profile not
\* found'; the capability is not called, no post is stored and no usage
\* counter changes.  (On server.js the user has an organization and the
\* lookups succeed.)
C24_NoProfileNoGeneration ==
    [][\A u \in Users :
          gen[u].pc = "idle" =>
              /\ \A count \in GenCountInputs :
                    ( /\ OrgOfUser(u) # NULL
                      /\ last'.err # "query"
                      /\ GenerateRequest(u, count, FALSE) )
                    => /\ last'.err = "Profile not found"
                       /\ last'.code >= 400
                       /\ last'.calls = 0
                       /\ gen' = gen /\ posts' = posts /\ usage' = usage
              /\ \A count \in GenCountInputs, companyName \in GenCompanies :
                    ( /\ ~hasProfile(u)
                      /\ last'.err # "query"
                      /\ LegacyGenerateRequest(u, count, companyName) )
                    => /\ last'.code >= 400
                       /\ gen' = gen /\ posts' = posts /\ usage' = usage]_vars

\* C25: a step of the persistence loop either stores the next post or, when
\* its INSERT fails, ends the call with an error response that carries no
\* post; 201 is answered only by the step that stores the last post.
C25_InsertFailureIsError ==
    [][\A u \in Users :
          (gen[u].pc = "ins" /\ gen'[u] # gen[u]) =>
              IF posts' = posts
              THEN /\ last'.op = "generate"
                   /\ last'.code = 500
                   /\ last'.rows = {}
                   /\ gen'[u] = IdleGen
              ELSE /\ posts' = Append(posts, Head(gen[u].queue))
                   /\ (last'.op = "generate" /\ last'.code = 201)
                         <=> Len(gen[u].queue) = 1
                   /\ last'.op = "generate"
                         => last'.rows = gen[u].ids \cup {Len(posts')}]_vars

\* An INSERT of a server.js call has just failed, with posts in the store.
C25_Witness ==
    /\ server = "server.js"
    /\ last.op = "generate"
    /\ last.err = "insert"
    /\ last.code = 500
    /\ posts # <<>>

\* C26: at most one execution of the sweep is in progress: the timer never
\* starts a sweep while the UPDATE of an earlier tick's sweep is pending.
C26_SweepNeverOverlaps ==
    sweepPending <= 1

\* C27: whatever count a request carries, the count the handler generates
\* for is an integer in 1..10: 5 when count is absent or not positive,
\* min(count, 10) otherwise; and a call creates at most that many posts.
C27_CountClamped ==
    [][\A u \in Users :
          /\ gen[u].pc = "idle" =>
                \A count \in GenCountInputs :
                    LET clamped == IF count.kind = "num" /\ count.n > 0
                                   THEN Min(count.n, MaxCount) ELSE DefaultCount
                    IN /\ (gen'[u].pc = "ai" /\ GenerateRequest(u, count, TRUE))
                             => /\ gen'[u].postCount = clamped
                                /\ gen'[u].postCount \in 1..MaxCount
                       /\ \A companyName \in GenCompanies :
                             (last'.err # "query" /\ LegacyGenerateRequest(u, count, companyName))
                                 => /\ LegacyCount(count) = clamped
                                    /\ LegacyCount(count) \in 1..MaxCount
          /\ gen'[u].pc = "ins"
                => Len(gen'[u].queue) + Cardinality(gen'[u].ids) <= gen'[u].postCount]_vars

\* C28: a generate call makes at most one request to the generation
\* capability, and a call that failed on the capability's answer made
\* exactly that one.
C28_SingleCapabilityCall ==
    /\ \A u \in Users : gen[u].calls <= 1
    /\ last.op = "generate" => last.calls <= 1
    /\ (last.op = "generate" /\ last.err = "OpenAI API error") => last.calls = 1

\* A call has just failed on the capability's answer, after one request.
C28_Witness ==
    /\ server = "server.js"
    /\ last.op = "generate"
    /\ last.err = "OpenAI API error"
    /\ last.code = 500
    /\ last.calls = 1

\* C29: while a call inserts its posts, the rows it has stored, one per
\* item already taken from the queue, are each a draft of its
\* organization; a successful INSERT stores the next item of
\* the queue as built, and a failed one changes no row and ends the call,
\* so that the items from the failed index on are never stored.
C29_PrefixPersisted ==
    [][\A u \in Users :
          gen[u].pc = "ins" =>
              /\ \A id \in gen[u].ids :
                    /\ id \in Ids
                    /\ posts[id].status = "draft"
                    /\ posts[id].organization_id = gen[u].org
              /\ gen'[u] # gen[u] =>
                    IF last'.err = "insert"
                    THEN /\ posts' = posts
                         /\ gen'[u] = IdleGen
                    ELSE /\ posts' = Append(posts, Head(gen[u].queue))
                         /\ Head(gen[u].queue).status = "draft"
                         /\ gen'[u].pc = "ins"
                               => /\ gen'[u].queue = Tail(gen[u].queue)
                                  /\ gen'[u].ids = gen[u].ids \cup {Len(posts')}]_vars

\* The INSERT of the second item has just failed: the first item is stored
\* as a draft and is the only post.
C29_Witness ==
    /\ last.op = "generate"
    /\ last.err = "insert"
    /\ Len(posts) = 1
    /\ posts[1].status = "draft"
    /\ \A u \in Users : gen[u] = IdleGen

\* C30: a generate call that ends with an error response has added nothing
\* to the usage counters of its organization.
C30_ErrorLeavesUsage ==
    [][\A u \in Users :
          ( /\ gen[u].pc # "idle"
            /\ gen'[u].pc = "idle"
            /\ last'.op = "generate"
            /\ last'.code >= 400 )
          => /\ gen[u].tokensUsed = 0
             /\ usage' = usage]_vars

====
